---- MODULE Spec2Model ----
(***************************************************************************)
(* State-machine model of the maze game's simulation core:                 *)
(*   useGameState      (phase, level index, score, collected count)        *)
(*   useGameTimer      (countdown)                                         *)
(*   usePlayerMovement (player position, move cooldown)                    *)
(*   useEnemyAI        (basic enemy update, move history)                  *)
(*   MazeGame          (handlers, game loop, delayed level initialization) *)
(*                                                                         *)
(* React semantics used throughout: a handler runs against the values of   *)
(* the render it was created in (its closure); the state updates it queues *)
(* are applied together afterwards, in order, and the effects of the next  *)
(* render run before any other handler.  One action = one handler plus the *)
(* render and effects that follow it.  The basic enemy AI is the active    *)
(* one (aiConfig.enabled is false and the api key is empty by default).    *)
(***************************************************************************)
EXTENDS Integers, Sequences, FiniteSets, TLC

VARIABLES
  levels,          \* the level list given to useGameState and read by MazeGame
  gameState,       \* useGameState: 'menu' | 'playing' | 'paused' | 'won' | 'lost' | 'completed'
  currentLevel,    \* useGameState: 0-based level index
  score,           \* useGameState: score of the current level
  totalScore,      \* useGameState: running total
  collectedItems,  \* useGameState: collected-item count
  timeLeft,        \* useGameState: the timeLeft of the game-state hook
  timerTimeLeft,   \* useGameTimer: the timeLeft counted down by the timer hook
  isRunning,       \* useGameTimer: isRunning
  pausedTimeRef,   \* useGameTimer: 0, or 1 for a recorded pause instant (> 0)
  currentMaze,     \* MazeGame: the in-play grid (<<>> before the first level)
  mazeRows,        \* the level whose row arrays the in-play grid shares, or NoLevel
  playerPos,       \* usePlayerMovement: player position
  lastMoveRecent,  \* usePlayerMovement: TRUE iff now - lastMoveTime < MOVE_COOLDOWN
  enemies,         \* useEnemyAI: sequence of enemy positions
  moveHistory,     \* useEnemyAI: moveHistoryRef, position key -> recent positions
  pendingInit,     \* MazeGame: closures queued by setTimeout(initializeCurrentLevel, 100)
  difficulty,      \* MazeGame: settings.difficulty
  sinceArmed,      \* interval callbacks run since the render that last set both intervals
  call,            \* a call of a grid utility with its arguments and result, or NoCall
  gen,             \* generateMaze: a call in progress (w, h, maze, stack), or GenIdle
  ticks            \* history variable: countdown ticks since startTimer was last called

vars == <<levels, gameState, currentLevel, score, totalScore, collectedItems, timeLeft,
          timerTimeLeft, isRunning, pausedTimeRef, currentMaze, mazeRows,
          playerPos, lastMoveRecent, enemies, moveHistory, pendingInit, difficulty,
          sinceArmed, call, gen, ticks>>

\* The variables of the game (all but those of the utility calls)
gameVars == <<levels, gameState, currentLevel, score, totalScore, collectedItems,
              timeLeft, timerTimeLeft, isRunning, pausedTimeRef, currentMaze,
              mazeRows, playerPos, lastMoveRecent, enemies, moveHistory,
              pendingInit, difficulty, sinceArmed, ticks>>

----------------------------------------------------------------------------
(* Bounds of the model *)

\* collectedItems is not bounded by the code; collecting is cut off here
MaxCollected == 2
\* totalScore only grows; continuing from won is cut off above this total
MaxTotalScore == 130
\* number of delayed initializations that may be queued at once
MaxPending == 1
\* largest width and height requested from generateMaze (6 is coerced to 7)
MaxGenSize == 6
\* largest number of collectibles requested from generateMaze
MaxGenCollectibles == 2
\* the grids handed to the grid utilities and to the single-enemy runs have
\* UtilRows rows and up to MaxUtilCols columns
MaxUtilCols == 3

----------------------------------------------------------------------------
(* Cell kinds and scoring constants *)

PATH == 0
WALL == 1
EXIT == 3
COLLECTIBLE == 4

COLLECT_POINTS == 100
TIME_BONUS == 10

Pos(x, y) == [x |-> x, y |-> y]

NULL == [x |-> -1, y |-> -1]

\* Level data, scaled down from the bundled levels: walled border, player
\* start (1,1), exit at (width-2, height-2), growing time limits, mazes of
\* different sizes.  The first level carries the enemy so that both a level
\* with and a level without enemies can be won and continued from.
LEVELS ==
  << [ timeLimit |-> 2, collectibles |-> 1,
       playerStart |-> Pos(1, 1), exitPosition |-> Pos(2, 2),
       enemyPositions |-> << Pos(1, 2) >>,
       maze |-> << <<1,1,1,1>>,
                   <<1,0,4,1>>,
                   <<1,0,3,1>>,
                   <<1,1,1,1>> >> ],
     [ timeLimit |-> 3, collectibles |-> 1,
       playerStart |-> Pos(1, 1), exitPosition |-> Pos(3, 2),
       enemyPositions |-> << >>,
       maze |-> << <<1,1,1,1,1>>,
                   <<1,0,0,0,1>>,
                   <<1,4,1,3,1>>,
                   <<1,1,1,1,1>> >> ] >>

\* The bundled levels as they are in the source
BundledLevels ==
  << [ timeLimit |-> 60, collectibles |-> 1,
       playerStart |-> Pos(1, 1), exitPosition |-> Pos(7, 7),
       enemyPositions |-> <<  >>,
       maze |-> << <<1,1,1,1,1,1,1,1,1>>,
                   <<1,0,0,0,1,0,0,0,1>>,
                   <<1,0,1,0,1,0,1,4,1>>,
                   <<1,0,1,0,0,0,1,0,1>>,
                   <<1,0,1,1,1,0,1,0,1>>,
                   <<1,0,0,0,0,0,1,0,1>>,
                   <<1,1,1,0,1,1,1,0,1>>,
                   <<1,0,0,0,0,0,0,3,1>>,
                   <<1,1,1,1,1,1,1,1,1>> >> ],
     [ timeLimit |-> 90, collectibles |-> 3,
       playerStart |-> Pos(1, 1), exitPosition |-> Pos(11, 9),
       enemyPositions |-> << Pos(6, 3), Pos(9, 7) >>,
       maze |-> << <<1,1,1,1,1,1,1,1,1,1,1,1,1>>,
                   <<1,0,0,0,1,0,0,0,0,0,1,4,1>>,
                   <<1,0,1,0,1,0,1,1,1,0,1,0,1>>,
                   <<1,0,1,0,0,0,0,0,1,0,0,0,1>>,
                   <<1,0,1,1,1,1,1,0,1,1,1,0,1>>,
                   <<1,0,0,0,0,0,0,0,0,0,0,0,1>>,
                   <<1,1,1,0,1,1,1,1,1,0,1,4,1>>,
                   <<1,0,0,0,1,0,0,0,0,0,1,0,1>>,
                   <<1,0,1,1,1,0,1,1,1,1,1,0,1>>,
                   <<1,4,0,0,0,0,0,0,0,0,0,3,1>>,
                   <<1,1,1,1,1,1,1,1,1,1,1,1,1>> >> ],
     [ timeLimit |-> 120, collectibles |-> 5,
       playerStart |-> Pos(1, 1), exitPosition |-> Pos(13, 11),
       enemyPositions |-> << Pos(4, 4), Pos(8, 6), Pos(10, 9) >>,
       maze |-> << <<1,1,1,1,1,1,1,1,1,1,1,1,1,1,1>>,
                   <<1,0,0,0,1,0,0,0,0,0,1,0,0,4,1>>,
                   <<1,0,1,0,1,0,1,1,1,0,1,0,1,0,1>>,
                   <<1,0,1,0,0,0,1,0,0,0,0,0,1,0,1>>,
                   <<1,0,1,1,1,0,1,0,1,1,1,1,1,0,1>>,
                   <<1,0,0,0,0,0,0,0,0,0,0,0,0,0,1>>,
                   <<1,1,1,1,1,1,0,1,1,1,0,1,1,4,1>>,
                   <<1,0,0,0,0,0,0,1,0,0,0,1,0,0,1>>,
                   <<1,0,1,1,1,1,0,1,0,1,0,1,0,1,1>>,
                   <<1,0,0,0,0,0,0,0,0,1,0,0,0,0,1>>,
                   <<1,4,1,1,1,0,1,1,0,1,1,1,1,4,1>>,
                   <<1,0,0,0,0,0,1,0,0,0,0,0,0,3,1>>,
                   <<1,1,1,1,1,1,1,1,1,1,1,1,1,1,1>> >> ] >>

\* A level list whose only level has neither an Exit nor a Collectible cell
InvalidLevels ==
  << [ timeLimit |-> 2, collectibles |-> 1,
       playerStart |-> Pos(1, 1), exitPosition |-> Pos(2, 2),
       enemyPositions |-> << >>,
       maze |-> << <<1,1,1,1>>,
                   <<1,0,0,1>>,
                   <<1,0,0,1>>,
                   <<1,1,1,1>> >> ] >>

\* The level list with the third bundled level kept, scaled down like the
\* others.  As in the bundled level 3, whose enemies at (4,4) and (8,6) are
\* on cells that its maze has as Wall, the enemy starts on a Wall cell.
FullLevels ==
  Append(LEVELS,
     [ timeLimit |-> 4, collectibles |-> 1,
       playerStart |-> Pos(1, 1), exitPosition |-> Pos(3, 2),
       enemyPositions |-> << Pos(2, 2) >>,
       maze |-> << <<1,1,1,1,1>>,
                   <<1,0,0,4,1>>,
                   <<1,0,1,3,1>>,
                   <<1,1,1,1,1>> >> ])

NumLevels == Len(levels)

Level(i) == levels[i + 1]

Positions == { Pos(x, y) : x \in 0..4, y \in 0..3 }

directions == << Pos(0, -1), Pos(0, 1), Pos(-1, 0), Pos(1, 0) >>

Difficulties == {"easy", "normal", "hard"}

\* Periods of the two intervals, in milliseconds
TIMER_PERIOD == 1000

enemyMoveInterval ==
  IF difficulty = "easy" THEN 1200 ELSE IF difficulty = "normal" THEN 800 ELSE 500

----------------------------------------------------------------------------
(* Grid helpers *)

cloneMaze(maze) ==
  [ r \in 1..Len(maze) |-> [ c \in 1..Len(maze[r]) |-> maze[r][c] ] ]

\* Grids are arrays of row arrays.  rows names the level whose row arrays a
\* grid shares (NoLevel for rows of its own); a write into a grid's row is a
\* write into that level's maze.
NoLevel == -1

\* A copy that takes over the rows of its argument (maze.slice())
clonedRowsShared(rows) == rows

\* The rows of cloneMaze's result: every row is copied ([...row])
clonedRows(rows) == NoLevel

\* newMaze[y][x] = newValue, seen from the level list
writeRow(levelList, rows, x, y, newValue) ==
  IF rows = NoLevel THEN levelList
  ELSE [ levelList EXCEPT ![rows + 1].maze[y + 1][x + 1] = newValue ]

isInBounds(x, y, maze) ==
  y >= 0 /\ y < Len(maze) /\ x >= 0 /\ x < Len(maze[1])

\* updateMazeCell that overwrites the whole row
updateMazeCellWholeRow(maze, x, y, newValue) ==
  IF ~isInBounds(x, y, maze) THEN maze
  ELSE [ cloneMaze(maze) EXCEPT ![y + 1] = [ c \in 1..Len(maze[1]) |-> newValue ] ]

updateMazeCell(maze, x, y, newValue) ==
  IF ~isInBounds(x, y, maze) THEN maze
  ELSE [ cloneMaze(maze) EXCEPT ![y + 1][x + 1] = newValue ]

removeCollectible(maze, x, y) == updateMazeCell(maze, x, y, PATH)

\* The rows of updateMazeCell's result, and the level list after its write
updateMazeCellRows(maze, rows, x, y) ==
  IF ~isInBounds(x, y, maze) THEN rows ELSE clonedRows(rows)

updateMazeCellLevels(levelList, maze, rows, x, y, newValue) ==
  IF ~isInBounds(x, y, maze) THEN levelList
  ELSE writeRow(levelList, clonedRows(rows), x, y, newValue)

countCells(maze, cellType) ==
  Cardinality({ rc \in UNION { { <<r, c>> : c \in 1..Len(maze[r]) } : r \in 1..Len(maze) } :
                  maze[rc[1]][rc[2]] = cellType })

validateMaze(maze) ==
  IF Len(maze) = 0
    THEN [ isValid |-> FALSE, errors |-> << "Maze is empty" >> ]
  ELSE IF Len(maze[1]) = 0
    THEN [ isValid |-> FALSE, errors |-> << "Maze has no columns" >> ]
  ELSE
    LET widthErrors ==
          IF \E r \in 1..Len(maze) : Len(maze[r]) # Len(maze[1])
            THEN << "Row has inconsistent width" >> ELSE << >>
        exitErrors ==
          IF countCells(maze, EXIT) = 0
            THEN << "Maze must have at least one exit" >> ELSE << >>
        collectibleErrors ==
          IF countCells(maze, COLLECTIBLE) = 0
            THEN << "Maze should have at least one collectible" >> ELSE << >>
        errors == widthErrors \o exitErrors \o collectibleErrors
    IN [ isValid |-> Len(errors) = 0, errors |-> errors ]

\* isValidMove without the wall test
isValidMoveNoWall(maze, x, y) ==
  IF Len(maze) = 0 THEN FALSE
  ELSE ~(y < 0 \/ y >= Len(maze) \/ x < 0 \/ x >= Len(maze[1]))

\* usePlayerMovement.isValidMove and useEnemyAI.isValidEnemyMove (same test)
isValidMove(maze, x, y) ==
  IF Len(maze) = 0 THEN FALSE
  ELSE IF y < 0 \/ y >= Len(maze) \/ x < 0 \/ x >= Len(maze[1]) THEN FALSE
  ELSE maze[y + 1][x + 1] # WALL

isValidEnemyMove(maze, x, y) ==
  IF Len(maze) = 0 THEN FALSE
  ELSE y >= 0 /\ y < Len(maze) /\ x >= 0 /\ x < Len(maze[1])
       /\ maze[y + 1][x + 1] # WALL

Abs(n) == IF n < 0 THEN -n ELSE n

getDistance(pos1, pos2) == Abs(pos1.x - pos2.x) + Abs(pos1.y - pos2.y)

----------------------------------------------------------------------------
(* The values a render exposes to the handlers created in it *)

Snapshot ==
  [ gameState |-> gameState, currentLevel |-> currentLevel, score |-> score,
    totalScore |-> totalScore, collectedItems |-> collectedItems,
    timeLeft |-> timeLeft, timerTimeLeft |-> timerTimeLeft,
    isRunning |-> isRunning, pausedTimeRef |-> pausedTimeRef,
    currentMaze |-> currentMaze, mazeRows |-> mazeRows, levels |-> levels,
    playerPos |-> playerPos,
    lastMoveRecent |-> lastMoveRecent, enemies |-> enemies,
    moveHistory |-> moveHistory, pendingInit |-> pendingInit,
    difficulty |-> difficulty, sinceArmed |-> 0, ticks |-> ticks ]

\* sinceArmed is 0 in the queued state: the render that a state update causes
\* clears both intervals and sets them again (see TimerTick and EnemyTick);
\* the steps that update no state put the current value back.

\* What initializeCurrentLevel captures from its render: currentLevel, and
\* through setPlayerPosition/isValidMove the maze of that render
Closure == [ currentLevel |-> currentLevel, maze |-> currentMaze ]

EmptyHistory == [ p \in Positions |-> << >> ]

----------------------------------------------------------------------------
(* useGameTimer: operations on the queued state s *)

startTimer(s, initialTime) ==
  [ s EXCEPT !.timerTimeLeft = initialTime, !.isRunning = TRUE,
             !.pausedTimeRef = 0, !.ticks = 0 ]

stopTimer(s) == [ s EXCEPT !.isRunning = FALSE ]

\* pauseTimer reads isRunning of the render it was created in
pauseTimer(s, renderIsRunning) ==
  IF renderIsRunning
    THEN [ s EXCEPT !.isRunning = FALSE, !.pausedTimeRef = 1 ]
    ELSE s

\* resumeTimer reads isRunning of its render and the ref at call time
resumeTimer(s, renderIsRunning) ==
  IF ~renderIsRunning /\ s.pausedTimeRef > 0
    THEN [ s EXCEPT !.isRunning = TRUE, !.pausedTimeRef = 0 ]
    ELSE s

\* The interval of the timer effect exists iff this holds after a render
TimerArmed == gameState = "playing" /\ isRunning

\* "Auto-pause/resume based on game state": runs after a render in which
\* gameState, pauseTimer or resumeTimer (i.e. isRunning) changed
AutoPauseEffect(s) ==
  IF s.gameState = gameState /\ s.isRunning = isRunning THEN s
  ELSE IF s.gameState = "paused" THEN pauseTimer(s, s.isRunning)
  ELSE IF s.gameState = "playing" /\ s.pausedTimeRef > 0
    THEN resumeTimer(s, s.isRunning)
  ELSE s

----------------------------------------------------------------------------
(* useGameState: operations on the queued state s *)

initializeLevel(s, levelIndex) ==
  IF levelIndex >= NumLevels
    THEN [ s EXCEPT !.gameState = "completed" ]
    ELSE [ s EXCEPT !.currentLevel = levelIndex,
                    !.timeLeft = Level(levelIndex).timeLimit,
                    !.collectedItems = 0,
                    !.score = 0,
                    !.gameState = "playing" ]

\* nextLevel reads timeLeft, score and currentLevel of its render
nextLevel(s) ==
  LET timeBonus  == timeLeft * TIME_BONUS
      levelScore == score + timeBonus
      s1 == [ s EXCEPT !.totalScore = @ + levelScore ]
  IN IF currentLevel + 1 >= NumLevels
       THEN [ s1 EXCEPT !.gameState = "completed" ]
       ELSE initializeLevel(s1, currentLevel + 1)

\* resetLevel that leaves the game state as it is
resetLevelNoInit(s) == s

resetLevel(s) == initializeLevel(s, currentLevel)

addScore(s, points) == [ s EXCEPT !.score = @ + points ]

collectItem(s) == addScore([ s EXCEPT !.collectedItems = @ + 1 ], COLLECT_POINTS)

\* canExitLevel with the comparison off by one (strictly more than required)
canExitLevelStrict ==
  IF currentLevel < NumLevels
    THEN collectedItems > Level(currentLevel).collectibles
    ELSE FALSE

\* canExitLevel reads currentLevel and collectedItems of its render
canExitLevel ==
  IF currentLevel < NumLevels
    THEN collectedItems >= Level(currentLevel).collectibles
    ELSE FALSE

----------------------------------------------------------------------------
(* usePlayerMovement / useEnemyAI setters, MazeGame.initializeCurrentLevel *)

\* setPlayerPosition validates against the maze of the render it was created in
setPlayerPosition(s, pos, renderMaze) ==
  IF isValidMove(renderMaze, pos.x, pos.y)
    THEN [ s EXCEPT !.playerPos = pos ]
    ELSE s

resetEnemies(s, initialEnemies) ==
  [ s EXCEPT !.enemies = initialEnemies, !.moveHistory = EmptyHistory ]

\* cl is the closure of the render in which this callback was created
initializeCurrentLevel(s, cl) ==
  IF cl.currentLevel >= NumLevels THEN s
  ELSE
    LET level == Level(cl.currentLevel)
        s1 == [ s EXCEPT !.currentMaze = cloneMaze(level.maze),
                         !.mazeRows = clonedRows(cl.currentLevel) ]
        s2 == setPlayerPosition(s1, level.playerStart, cl.maze)
        s3 == resetEnemies(s2, level.enemyPositions)
        s4 == startTimer(s3, level.timeLimit)
    IN [ s4 EXCEPT !.timeLeft = level.timeLimit ]

----------------------------------------------------------------------------
(* Render: apply the queued state, then run the effects *)

Commit(s) ==
  LET t == AutoPauseEffect(s)
  IN /\ levels' = t.levels
     /\ gameState' = t.gameState
     /\ currentLevel' = t.currentLevel
     /\ score' = t.score
     /\ totalScore' = t.totalScore
     /\ collectedItems' = t.collectedItems
     /\ timeLeft' = t.timeLeft
     /\ timerTimeLeft' = t.timerTimeLeft
     /\ isRunning' = t.isRunning
     /\ pausedTimeRef' = t.pausedTimeRef
     /\ currentMaze' = t.currentMaze
     /\ mazeRows' = t.mazeRows
     /\ playerPos' = t.playerPos
     /\ lastMoveRecent' = t.lastMoveRecent
     /\ enemies' = t.enemies
     /\ moveHistory' = t.moveHistory
     /\ pendingInit' = t.pendingInit
     /\ difficulty' = t.difficulty
     /\ sinceArmed' = t.sinceArmed
     /\ gen' = gen
     /\ call' = call
     /\ ticks' = t.ticks

----------------------------------------------------------------------------
(* useEnemyAI: the basic enemy update *)

Infinity == 1000

Step(pos, dir) == Pos(pos.x + dir.x, pos.y + dir.y)

\* directions.forEach of findPathToPlayer, from direction i on
RECURSIVE findPathFrom(_, _, _, _, _, _)
findPathFrom(i, maze, enemyPos, player, bestMove, shortestDistance) ==
  IF i > Len(directions) THEN bestMove
  ELSE
    LET newPos == Step(enemyPos, directions[i])
    IN IF isValidEnemyMove(maze, newPos.x, newPos.y)
            /\ getDistance(newPos, player) < shortestDistance
         THEN findPathFrom(i + 1, maze, enemyPos, player, newPos,
                           getDistance(newPos, player))
         ELSE findPathFrom(i + 1, maze, enemyPos, player, bestMove,
                           shortestDistance)

findPathToPlayer(maze, enemyPos, player) ==
  findPathFrom(1, maze, enemyPos, player, NULL, Infinity)

wasRecentlyHere(history, newPos) ==
  \E k \in 1..Len(history) : history[k] = newPos

\* directions.forEach of getRandomMove, from direction i on
RECURSIVE validMovesFrom(_, _, _, _, _)
validMovesFrom(i, maze, enemyPos, history, validMoves) ==
  IF i > Len(directions) THEN validMoves
  ELSE
    LET newPos == Step(enemyPos, directions[i])
    IN IF isValidEnemyMove(maze, newPos.x, newPos.y)
            /\ (~wasRecentlyHere(history, newPos) \/ Len(validMoves) = 0)
         THEN validMovesFrom(i + 1, maze, enemyPos, history,
                             Append(validMoves, newPos))
         ELSE validMovesFrom(i + 1, maze, enemyPos, history, validMoves)

\* A random move that never takes a recently visited cell
getRandomMoveFresh(maze, hist, enemyPos) ==
  { n \in { Step(enemyPos, directions[k]) : k \in 1..Len(directions) } :
      isValidEnemyMove(maze, n.x, n.y) /\ ~wasRecentlyHere(hist[enemyPos], n) }

\* The cells getRandomMove may return (any element of validMoves); {} for null
getRandomMove(maze, hist, enemyPos) ==
  LET validMoves == validMovesFrom(1, maze, enemyPos, hist[enemyPos], << >>)
  IN { validMoves[k] : k \in 1..Len(validMoves) }

updateEnemyHistory(hist, enemyPos, newPos) ==
  LET pushed  == Append(hist[enemyPos], enemyPos)
      history == IF Len(pushed) > 3 THEN Tail(pushed) ELSE pushed
  IN [ hist EXCEPT ![newPos] = history, ![enemyPos] = << >> ]

\* The values newPos may have for one enemy in a tick (NULL for null): with
\* the chase draw succeeding, the chase move, or a random move if there is no
\* chase move; with the draw failing, a random move
EnemyMoves(maze, hist, enemy, player) ==
  LET chase  == findPathToPlayer(maze, enemy, player)
      moves  == getRandomMove(maze, hist, enemy)
      random == IF moves = {} THEN {NULL} ELSE moves
  IN (IF chase # NULL THEN {chase} ELSE random) \cup random

\* prevEnemies.map(...) from enemy i on: every <<enemies, history>> it can yield
RECURSIVE mapEnemies(_, _, _, _, _)
mapEnemies(i, maze, player, es, hist) ==
  IF i > Len(es) THEN { <<es, hist>> }
  ELSE
    UNION { IF newPos = NULL
              THEN mapEnemies(i + 1, maze, player, es, hist)
              ELSE mapEnemies(i + 1, maze, player,
                              [ es EXCEPT ![i] = newPos ],
                              updateEnemyHistory(hist, es[i], newPos))
            : newPos \in EnemyMoves(maze, hist, es[i], player) }

\* updateEnemies, created in a render with this gameState, maze and player
updateEnemies(renderState, maze, player, es, hist) ==
  IF renderState # "playing" \/ Len(es) = 0
    THEN { <<es, hist>> }
    ELSE mapEnemies(1, maze, player, es, hist)

isPlayerCaught(es, playerPosition) ==
  \E k \in 1..Len(es) : es[k] = playerPosition

\* A game loop that is not cleared on pause
GameLoopArmedWhilePaused == gameState \in {"playing", "paused"}

\* The interval of the game loop effect exists iff this holds after a render
GameLoopArmed == gameState = "playing"

----------------------------------------------------------------------------
(* Initial state: the values of the useState/useRef initializers *)

InitFor(levelList) ==
  /\ levels = levelList
  /\ gameState = "menu"
  /\ currentLevel = 0
  /\ score = 0
  /\ totalScore = 0
  /\ collectedItems = 0
  /\ timeLeft = 60
  /\ timerTimeLeft = 60
  /\ isRunning = FALSE
  /\ pausedTimeRef = 0
  /\ currentMaze = << >>
  /\ mazeRows = NoLevel
  /\ playerPos = Pos(1, 1)
  /\ lastMoveRecent = FALSE
  /\ enemies = << >>
  /\ moveHistory = EmptyHistory
  /\ pendingInit = << >>
  /\ difficulty = "normal"
  /\ sinceArmed = 0
  /\ ticks = 0

\* No generateMaze call in progress
GenIdle == [ pc |-> "idle" ]

\* No utility call made
NoCall == [ fn |-> "none" ]

\* The game as bundled
Init == InitFor(LEVELS) /\ gen = GenIdle /\ call = NoCall

\* The game built with either level list
ContentInit ==
  /\ \E levelList \in { LEVELS, InvalidLevels } : InitFor(levelList)
  /\ gen = GenIdle
  /\ call = NoCall

----------------------------------------------------------------------------
(* Player commands *)

\* MazeGame.handleCollectItem: playerPos and currentMaze are those of the render
handleCollectItem(s) ==
  collectItem([ s EXCEPT
    !.currentMaze = removeCollectible(currentMaze, playerPos.x, playerPos.y),
    !.mazeRows = updateMazeCellRows(currentMaze, mazeRows, playerPos.x, playerPos.y),
    !.levels = updateMazeCellLevels(s.levels, currentMaze, mazeRows,
                                    playerPos.x, playerPos.y, PATH) ])

\* MazeGame.handleReachExit
handleReachExit(s) ==
  IF canExitLevel
    THEN stopTimer([ s EXCEPT !.gameState = "won" ])
    ELSE s

\* movePlayer without the isValidMove test and the cell handling
movePlayerUnchecked(s, dx, dy) ==
  [ s EXCEPT !.playerPos = Pos(playerPos.x + dx, playerPos.y + dy) ]

\* usePlayerMovement.movePlayer, past the phase and cooldown checks
movePlayer(s, dx, dy) ==
  LET newX == playerPos.x + dx
      newY == playerPos.y + dy
  IN IF ~isValidMove(currentMaze, newX, newY)
       THEN [ s EXCEPT !.sinceArmed = sinceArmed ]
     ELSE
       LET cellType == currentMaze[newY + 1][newX + 1]
           s1 == IF cellType = COLLECTIBLE THEN handleCollectItem(s) ELSE s
           s2 == IF cellType = EXIT THEN handleReachExit(s1) ELSE s1
       IN [ s2 EXCEPT !.playerPos = Pos(newX, newY) ]

\* MazeGame.handleMove -> movePlayer; a no-op outside playing and within the cooldown
Move(dir) ==
  IF gameState # "playing" \/ lastMoveRecent
    THEN UNCHANGED vars
    ELSE /\ (currentMaze # << >>
              /\ isValidMove(currentMaze, playerPos.x + dir.x, playerPos.y + dir.y)
              /\ currentMaze[playerPos.y + dir.y + 1][playerPos.x + dir.x + 1] = COLLECTIBLE)
            => collectedItems < MaxCollected
         /\ Commit(movePlayer([ Snapshot EXCEPT !.lastMoveRecent = TRUE ],
                              dir.x, dir.y))

\* MOVE_COOLDOWN milliseconds have passed since the last accepted move attempt
CooldownElapses ==
  /\ lastMoveRecent
  /\ Commit([ Snapshot EXCEPT !.lastMoveRecent = FALSE, !.sinceArmed = sinceArmed ])

HandlePause ==
  /\ gameState \in {"playing", "paused"}
  /\ IF gameState = "playing"
       THEN Commit(pauseTimer([ Snapshot EXCEPT !.gameState = "paused" ], isRunning))
       ELSE Commit(resumeTimer([ Snapshot EXCEPT !.gameState = "playing" ], isRunning))

HandleReset ==
  /\ gameState # "menu"
  /\ Commit([ initializeCurrentLevel(resetLevel(Snapshot), Closure)
                EXCEPT !.gameState = "playing" ])

HandleMenu ==
  /\ gameState # "menu"
  /\ Commit([ stopTimer(Snapshot) EXCEPT !.gameState = "menu" ])

HandleStartGame ==
  /\ gameState = "menu"
  /\ Commit(initializeCurrentLevel(initializeLevel(Snapshot, 0), Closure))

HandleLevelSelect(levelIndex) ==
  /\ gameState = "menu"
  /\ Commit(initializeCurrentLevel(initializeLevel(Snapshot, levelIndex), Closure))

HandleNextLevel ==
  /\ gameState = "won"
  /\ totalScore + score + timeLeft * TIME_BONUS <= MaxTotalScore
  /\ Len(pendingInit) < MaxPending
  /\ LET s1 == nextLevel(Snapshot)
     IN IF currentLevel + 1 < NumLevels
          THEN Commit([ s1 EXCEPT !.pendingInit = Append(@, Closure) ])
          ELSE Commit(s1)

HandlePlayAgain ==
  /\ gameState = "completed"
  /\ Commit(initializeCurrentLevel(initializeLevel(Snapshot, 0), Closure))

\* The difficulty buttons of the main menu's settings section
HandleSettingsChange(d) ==
  /\ gameState = "menu"
  /\ Commit([ Snapshot EXCEPT !.difficulty = d ])

----------------------------------------------------------------------------
(* Timer callbacks *)

\* Both intervals are cleared and set again by the effects of every render of
\* MazeGame: the timer effect depends on the inline onTimeUp and the game loop
\* effect on activeEnemyAI and gameTimer, which are new objects on each render.
\* So both intervals always count from the same render, and an interval set
\* by the render that queued a 100 ms timeout, or by a later one, comes due
\* (>= 500 ms) only after that timeout has fired.
IntervalsDue == pendingInit = << >>

\* Counting from the render that set them, the game loop's interval comes due
\* first when its period is the shorter one or no timer interval exists; a
\* callback that updates state causes a render and so sets both again.
LoopDue ==
  ~TimerArmed \/ (enemyMoveInterval < TIMER_PERIOD /\ sinceArmed = 0)

\* The timer's interval comes due when its period is the shorter one, or
\* after the game loop's callback has run without updating any state
TimerDue ==
  enemyMoveInterval > TIMER_PERIOD \/ sinceArmed = 1

\* The callback queued by handleNextLevel's setTimeout fires
DelayedInit ==
  /\ pendingInit # << >>
  /\ Commit(initializeCurrentLevel([ Snapshot EXCEPT !.pendingInit = Tail(@) ],
                                   Head(pendingInit)))

\* The 1-second interval of the timer effect fires
TimerTick ==
  /\ TimerArmed
  /\ IntervalsDue
  /\ TimerDue
  /\ IF timerTimeLeft <= 1
       THEN Commit([ Snapshot EXCEPT !.timerTimeLeft = 0,
                                     !.isRunning = FALSE,
                                     !.gameState = "lost",
                                     !.ticks = @ + 1 ])
       ELSE Commit([ Snapshot EXCEPT !.timerTimeLeft = @ - 1,
                                     !.ticks = @ + 1 ])

\* The interval of the game loop effect fires.  With no enemies updateEnemies
\* returns before setEnemies and nobody is caught: no state update, no render.
EnemyTick ==
  /\ GameLoopArmed
  /\ IntervalsDue
  /\ LoopDue
  /\ \E r \in updateEnemies(gameState, currentMaze, playerPos, enemies, moveHistory) :
       LET s1 == IF Len(enemies) = 0
                   THEN [ Snapshot EXCEPT !.sinceArmed = IF TimerArmed THEN 1 ELSE 0 ]
                   ELSE [ Snapshot EXCEPT !.enemies = r[1], !.moveHistory = r[2] ]
       IN IF isPlayerCaught(enemies, playerPos)
            THEN Commit(stopTimer([ s1 EXCEPT !.gameState = "lost" ]))
            ELSE Commit(s1)

----------------------------------------------------------------------------

Next ==
  \/ TimerTick
  \/ EnemyTick
  \/ DelayedInit
  \/ \E dir \in { directions[k] : k \in 1..Len(directions) } : Move(dir)
  \/ CooldownElapses
  \/ HandlePause
  \/ HandleNextLevel
  \/ HandleStartGame
  \/ \E levelIndex \in 0..(NumLevels - 1) : HandleLevelSelect(levelIndex)
  \/ HandlePlayAgain
  \/ \E d \in Difficulties : HandleSettingsChange(d)
  \/ HandleMenu
  \/ HandleReset

Spec == Init /\ [][Next]_vars

ContentSpec == ContentInit /\ [][Next]_vars

----------------------------------------------------------------------------
(* mazeUtilities.generateMaze and isMazeSolvable *)

\* Array(h).fill(null).map(() => Array(w).fill(WALL)), then maze[1][1] = PATH
generateMazeStart(width, height, collectibles) ==
  LET w == IF width % 2 = 0 THEN width + 1 ELSE width
      h == IF height % 2 = 0 THEN height + 1 ELSE height
  IN [ pc |-> "carve", w |-> w, h |-> h, collectibles |-> collectibles,
       maze |-> [ r \in 1..h |-> [ c \in 1..w |->
                    IF r = 2 /\ c = 2 THEN PATH ELSE WALL ] ],
       stack |-> << Pos(1, 1) >> ]

genDirections == << Pos(0, -2), Pos(2, 0), Pos(0, 2), Pos(-2, 0) >>

\* The unvisited neighbors of current, in the order of the directions
RECURSIVE genNeighborsFrom(_, _, _, _, _, _)
genNeighborsFrom(i, maze, w, h, current, neighbors) ==
  IF i > Len(genDirections) THEN neighbors
  ELSE
    LET nx == current.x + genDirections[i].x
        ny == current.y + genDirections[i].y
    IN IF nx > 0 /\ nx < w - 1 /\ ny > 0 /\ ny < h - 1
            /\ maze[ny + 1][nx + 1] = WALL
         THEN genNeighborsFrom(i + 1, maze, w, h, current,
                               Append(neighbors, Pos(nx, ny)))
         ELSE genNeighborsFrom(i + 1, maze, w, h, current, neighbors)

genNeighbors(g) ==
  genNeighborsFrom(1, g.maze, g.w, g.h, g.stack[Len(g.stack)], << >>)

\* Carving that opens the neighbor cell only
carvePathNoWall(maze, current, next) ==
  [ maze EXCEPT ![next.y + 1][next.x + 1] = PATH ]

\* "Carve path to neighbor": the neighbor cell and the wall between
carvePath(maze, current, next) ==
  LET wallX == current.x + (next.x - current.x) \div 2
      wallY == current.y + (next.y - current.y) \div 2
  IN [ maze EXCEPT ![next.y + 1][next.x + 1] = PATH,
                   ![wallY + 1][wallX + 1] = PATH ]

\* The scan without the test that leaves out the start cell
genPathCellsWithStart(maze, w, h) ==
  { p \in { Pos(x, y) : x \in 1..(w - 2), y \in 1..(h - 2) } :
      /\ p.x % 2 = 1 /\ p.y % 2 = 1
      /\ maze[p.y + 1][p.x + 1] = PATH
      /\ ~(p.x = w - 2 /\ p.y = h - 2) }

\* The cells offered to the collectible placement, scanned at odd coordinates
genPathCells(maze, w, h) ==
  { p \in { Pos(x, y) : x \in 1..(w - 2), y \in 1..(h - 2) } :
      /\ p.x % 2 = 1 /\ p.y % 2 = 1
      /\ maze[p.y + 1][p.x + 1] = PATH
      /\ ~(p.x = 1 /\ p.y = 1)
      /\ ~(p.x = w - 2 /\ p.y = h - 2) }

Min(a, b) == IF a < b THEN a ELSE b

\* A call generateMaze(width, height, collectibles) begins
GenStart ==
  /\ gen.pc = "idle"
  /\ \E width \in 3..MaxGenSize, height \in 3..MaxGenSize,
        collectibles \in 0..MaxGenCollectibles :
       gen' = generateMazeStart(width, height, collectibles)
  /\ UNCHANGED <<gameVars, call>>

\* One iteration of the while loop with an unvisited neighbor: any of them
GenCarve ==
  /\ gen.pc = "carve"
  /\ gen.stack # << >>
  /\ LET neighbors == genNeighbors(gen)
         current == gen.stack[Len(gen.stack)]
     IN /\ Len(neighbors) > 0
        /\ \E k \in 1..Len(neighbors) :
             gen' = [ gen EXCEPT !.maze = carvePath(@, current, neighbors[k]),
                                 !.stack = Append(@, neighbors[k]) ]
  /\ UNCHANGED <<gameVars, call>>

\* One iteration of the while loop without an unvisited neighbor: stack.pop()
GenBacktrack ==
  /\ gen.pc = "carve"
  /\ gen.stack # << >>
  /\ Len(genNeighbors(gen)) = 0
  /\ gen' = [ gen EXCEPT !.stack = SubSeq(@, 1, Len(@) - 1) ]
  /\ UNCHANGED <<gameVars, call>>

\* After the loop: the exit, then the collectibles on the first cells of a
\* shuffle of pathCells (any cells of that number), and the return
GenFinish ==
  /\ gen.pc = "carve"
  /\ gen.stack = << >>
  /\ LET withExit == [ gen.maze EXCEPT ![gen.h - 1][gen.w - 1] = EXIT ]
         pathCells == genPathCells(withExit, gen.w, gen.h)
         collectibleCount == Min(gen.collectibles, Cardinality(pathCells))
     IN \E chosen \in SUBSET pathCells :
          /\ Cardinality(chosen) = collectibleCount
          /\ gen' = [ gen EXCEPT
               !.pc = "done",
               !.maze = [ r \in 1..gen.h |-> [ c \in 1..gen.w |->
                            IF Pos(c - 1, r - 1) \in chosen
                              THEN COLLECTIBLE ELSE withExit[r][c] ] ] ]
  /\ UNCHANGED <<gameVars, call>>

GenNext == GenStart \/ GenCarve \/ GenBacktrack \/ GenFinish

\* Calls of generateMaze, each step of which is taken once it can be
GenSpec == Init /\ [][GenNext]_vars /\ WF_vars(GenNext)

\* The while loop of isMazeSolvable
RECURSIVE solveLoop(_, _, _, _)
solveLoop(maze, exit, queue, visited) ==
  IF Len(queue) = 0 THEN FALSE
  ELSE
    LET current == Head(queue)
        open == SelectSeq(directions, LAMBDA dir :
                  LET n == Step(current, dir)
                  IN /\ isInBounds(n.x, n.y, maze)
                     /\ n \notin (visited \cup {current})
                     /\ maze[n.y + 1][n.x + 1] # WALL)
        next == [ k \in 1..Len(open) |-> Step(current, open[k]) ]
    IN IF current \in visited THEN solveLoop(maze, exit, Tail(queue), visited)
       ELSE IF current = exit THEN TRUE
       ELSE solveLoop(maze, exit, Tail(queue) \o next, visited \cup {current})

isMazeSolvable(maze, start, exit) ==
  IF ~isInBounds(start.x, start.y, maze) \/ ~isInBounds(exit.x, exit.y, maze)
    THEN FALSE
    ELSE solveLoop(maze, exit, << start >>, {})

----------------------------------------------------------------------------
(* collision.findPath, called on small grids *)

isValidPosition(x, y, maze) ==
  IF ~isInBounds(x, y, maze) THEN FALSE
  ELSE maze[y + 1][x + 1] # WALL

getAdjacentPositions(pos, maze) ==
  LET moved == [ k \in 1..Len(directions) |-> Step(pos, directions[k]) ]
  IN SelectSeq(moved, LAMBDA newPos : isValidPosition(newPos.x, newPos.y, maze))

\* The result null of findPath
NoPath == << >>

\* A queue that hands out its newest entries first
enqueueFront(queue, entries) == entries \o queue

\* queue.push(...) for each entry, in order
enqueue(queue, entries) == queue \o entries

\* The while loop of findPath
RECURSIVE findPathLoop(_, _, _, _)
findPathLoop(maze, goal, queue, visited) ==
  IF Len(queue) = 0 THEN NoPath
  ELSE
    LET pos  == Head(queue).pos
        path == Head(queue).path
        adjacent == getAdjacentPositions(pos, maze)
        fresh == SelectSeq(adjacent, LAMBDA nextPos :
                   nextPos \notin (visited \cup {pos}))
        entries == [ k \in 1..Len(fresh) |->
                     [ pos |-> fresh[k], path |-> Append(path, fresh[k]) ] ]
    IN IF pos \in visited THEN findPathLoop(maze, goal, Tail(queue), visited)
       ELSE IF pos = goal THEN path
       ELSE findPathLoop(maze, goal, enqueue(Tail(queue), entries),
                         visited \cup {pos})

findPath(start, goal, maze) ==
  IF ~isValidPosition(start.x, start.y, maze)
       \/ ~isValidPosition(goal.x, goal.y, maze)
    THEN NoPath
    ELSE findPathLoop(maze, goal,
                      << [ pos |-> start, path |-> << start >> ] >>, {})

\* The game with all three bundled levels
FullSpec == InitFor(FullLevels) /\ gen = GenIdle /\ call = NoCall /\ [][Next]_vars

----------------------------------------------------------------------------
(* mazeUtilities.findDeadEnds and removeDeadEnds *)

\* The cells of a grid in the order of the scan (row by row)
scanCells(maze) ==
  [ k \in 1..(Len(maze) * Len(maze[1])) |->
      Pos((k - 1) % Len(maze[1]), (k - 1) \div Len(maze[1])) ]

\* The open neighbors of a cell: in bounds and not Wall
openNeighbors(maze, pos) ==
  SelectSeq([ k \in 1..Len(directions) |-> Step(pos, directions[k]) ],
            LAMBDA n : isInBounds(n.x, n.y, maze) /\ maze[n.y + 1][n.x + 1] # WALL)

findDeadEnds(maze) ==
  SelectSeq(scanCells(maze),
            LAMBDA pos : /\ maze[pos.y + 1][pos.x + 1] # WALL
                         /\ Len(openNeighbors(maze, pos)) = 1)

\* A test for important items that knows the Exit only
isImportantExitOnly(cellType) == cellType = EXIT

\* "Don't remove if it contains important items"
isImportant(cellType) == cellType = EXIT \/ cellType = COLLECTIBLE

\* for (const deadEnd of deadEnds), from dead end i on.  m carries the grid
\* being modified, the rows it shares and the caller's grid (as a level list
\* of one level) as the writes leave it.
RECURSIVE wallOffFrom(_, _, _)
wallOffFrom(i, deadEnds, m) ==
  IF i > Len(deadEnds) THEN m
  ELSE
    LET deadEnd == deadEnds[i]
    IN IF isImportant(m.maze[deadEnd.y + 1][deadEnd.x + 1])
         THEN wallOffFrom(i + 1, deadEnds, m)
         ELSE wallOffFrom(i + 1, deadEnds,
                [ m EXCEPT !.maze[deadEnd.y + 1][deadEnd.x + 1] = WALL,
                           !.levels = writeRow(@, m.rows, deadEnd.x, deadEnd.y, WALL),
                           !.changed = TRUE ])

\* while (changed)
RECURSIVE removeDeadEndsLoop(_)
removeDeadEndsLoop(m) ==
  LET pass == wallOffFrom(1, findDeadEnds(m.maze), [ m EXCEPT !.changed = FALSE ])
  IN IF pass.changed THEN removeDeadEndsLoop(pass) ELSE pass

\* removeDeadEnds(maze) with its effect on the rows of the argument
\* (rows 0 of the one-level list)
removeDeadEndsRun(maze) ==
  removeDeadEndsLoop([ maze |-> cloneMaze(maze), rows |-> clonedRows(0),
                       levels |-> << [ maze |-> maze ] >>, changed |-> TRUE ])

removeDeadEnds(maze) == removeDeadEndsRun(maze).maze

----------------------------------------------------------------------------
(* collision.hasLineOfSight *)

\* One pass through the body of the while loop after the validity test:
\* the next x, y and error
lineStep(at, dx, dy, stepX, stepY) ==
  LET error2 == 2 * at.error
      a1 == IF error2 > -dy
              THEN [ at EXCEPT !.error = @ - dy, !.x = @ + stepX ] ELSE at
  IN IF error2 < dx
       THEN [ a1 EXCEPT !.error = @ + dx, !.y = @ + stepY ] ELSE a1

\* while (x !== pos2.x || y !== pos2.y)
RECURSIVE lineOfSightLoop(_, _, _, _, _, _, _)
lineOfSightLoop(at, pos2, maze, dx, dy, stepX, stepY) ==
  IF at.x = pos2.x /\ at.y = pos2.y THEN TRUE
  ELSE IF ~isValidPosition(at.x, at.y, maze) THEN FALSE
  ELSE lineOfSightLoop(lineStep(at, dx, dy, stepX, stepY), pos2, maze,
                       dx, dy, stepX, stepY)

hasLineOfSight(pos1, pos2, maze) ==
  LET dx == Abs(pos2.x - pos1.x)
      dy == Abs(pos2.y - pos1.y)
      stepX == IF pos1.x < pos2.x THEN 1 ELSE -1
      stepY == IF pos1.y < pos2.y THEN 1 ELSE -1
  IN lineOfSightLoop([ x |-> pos1.x, y |-> pos1.y, error |-> dx - dy ],
                     pos2, maze, dx, dy, stepX, stepY)

UtilRows == 2

\* The grids of Path and Wall cells with UtilRows rows and cols columns
UtilGrids(cols) == [ 1..UtilRows -> [ 1..cols -> {PATH, WALL} ] ]

\* The cells of such a grid and the ring of cells around it
UtilCells(cols) == { Pos(x, y) : x \in -1..cols, y \in -1..UtilRows }

CallFindPath ==
  /\ call = NoCall
  /\ \E cols \in 1..MaxUtilCols :
       \E maze \in UtilGrids(cols), start \in UtilCells(cols), goal \in UtilCells(cols) :
         call' = [ fn |-> "findPath", maze |-> maze, start |-> start,
                   goal |-> goal, result |-> findPath(start, goal, maze) ]
  /\ UNCHANGED <<gameVars, gen>>

\* updateMazeCell(maze, x, y, newValue): its result, the rows the result
\* shares with the argument (0 names the argument's rows), and the argument
\* as it is after the call
CallUpdateMazeCell ==
  /\ call = NoCall
  /\ \E cols \in 1..MaxUtilCols :
       \E maze \in UtilGrids(cols), pos \in UtilCells(cols),
          newValue \in {PATH, WALL, EXIT, COLLECTIBLE} :
         call' = [ fn |-> "updateMazeCell", maze |-> maze, x |-> pos.x, y |-> pos.y,
                   newValue |-> newValue,
                   result |-> updateMazeCell(maze, pos.x, pos.y, newValue),
                   resultRows |-> updateMazeCellRows(maze, 0, pos.x, pos.y),
                   mazeAfter |-> updateMazeCellLevels(<< [ maze |-> maze ] >>, maze, 0,
                                                      pos.x, pos.y, newValue)[1].maze ]
  /\ UNCHANGED <<gameVars, gen>>

\* The grids of all four cell kinds with UtilRows rows and cols columns
ItemGrids(cols) == [ 1..UtilRows -> [ 1..cols -> {PATH, WALL, EXIT, COLLECTIBLE} ] ]

\* removeDeadEnds(maze): its result and the argument as it is after the call
CallRemoveDeadEnds ==
  /\ call = NoCall
  /\ \E cols \in 1..MaxUtilCols :
       \E maze \in ItemGrids(cols) :
         call' = [ fn |-> "removeDeadEnds", maze |-> maze,
                   result |-> removeDeadEnds(maze),
                   mazeAfter |-> removeDeadEndsRun(maze).levels[1].maze ]
  /\ UNCHANGED <<gameVars, gen>>

CallHasLineOfSight ==
  /\ call = NoCall
  /\ \E cols \in 1..MaxUtilCols :
       \E maze \in UtilGrids(cols), pos1 \in UtilCells(cols), pos2 \in UtilCells(cols) :
         call' = [ fn |-> "hasLineOfSight", maze |-> maze, pos1 |-> pos1,
                   pos2 |-> pos2, result |-> hasLineOfSight(pos1, pos2, maze) ]
  /\ UNCHANGED <<gameVars, gen>>

\* countCells(level.maze, COLLECTIBLE) for a bundled level, next to the
\* count the level asks for
CallCountCells ==
  /\ call = NoCall
  /\ \E i \in 1..Len(BundledLevels) :
       call' = [ fn |-> "countCells", level |-> i - 1,
                 maze |-> BundledLevels[i].maze, cellType |-> COLLECTIBLE,
                 collectibles |-> BundledLevels[i].collectibles,
                 result |-> countCells(BundledLevels[i].maze, COLLECTIBLE) ]
  /\ UNCHANGED <<gameVars, gen>>

\* A single enemy of useEnemyAI on a small grid: placed on a passable cell by
\* resetEnemies, with an empty move history, the player on a passable cell
PatrolStart ==
  /\ call = NoCall
  /\ \E cols \in 1..MaxUtilCols :
       \E maze \in UtilGrids(cols), enemy \in UtilCells(cols), player \in UtilCells(cols) :
         /\ isValidEnemyMove(maze, enemy.x, enemy.y)
         /\ isValidMove(maze, player.x, player.y)
         /\ call' = [ fn |-> "patrol", maze |-> maze, enemy |-> enemy,
                      player |-> player, moveHistory |-> EmptyHistory,
                      updated |-> FALSE ]
  /\ UNCHANGED <<gameVars, gen>>

\* One updateEnemies for that enemy, whatever the chase draw gives
UpdateTick ==
  /\ call.fn = "patrol"
  /\ \E r \in updateEnemies("playing", call.maze, call.player,
                             << call.enemy >>, call.moveHistory) :
       call' = [ call EXCEPT !.enemy = r[1][1], !.moveHistory = r[2],
                             !.updated = TRUE ]
  /\ UNCHANGED <<gameVars, gen>>

\* One updateEnemies for that enemy with the chase draw failing
\* (Math.random() >= chaseChance): getRandomMove, then updateEnemyHistory
PatrolTick ==
  /\ call.fn = "patrol"
  /\ \E newPos \in getRandomMove(call.maze, call.moveHistory, call.enemy) :
       call' = [ call EXCEPT
                   !.enemy = newPos,
                   !.moveHistory = updateEnemyHistory(@, call.enemy, newPos) ]
  /\ UNCHANGED <<gameVars, gen>>

UtilNext ==
  \/ CallFindPath
  \/ CallUpdateMazeCell
  \/ CallCountCells
  \/ CallHasLineOfSight
  \/ CallRemoveDeadEnds
  \/ PatrolStart
  \/ PatrolTick
  \/ UpdateTick

\* Calls of the grid utilities on every small grid
UtilSpec == Init /\ [][UtilNext]_vars

\* An interval or timeout that is due and stays due does fire
LiveSpec ==
  /\ Spec
  /\ WF_vars(TimerTick)
  /\ WF_vars(EnemyTick)
  /\ WF_vars(DelayedInit)

TypeOK ==
  /\ gameState \in {"menu", "playing", "paused", "won", "lost", "completed"}
  /\ currentLevel \in 0..(NumLevels - 1)
  /\ collectedItems \in 0..MaxCollected
  /\ score = COLLECT_POINTS * collectedItems
  /\ isRunning \in BOOLEAN
  /\ pausedTimeRef \in {0, 1}
  /\ playerPos \in Positions
  /\ \A k \in 1..Len(enemies) : enemies[k] \in Positions
  /\ Len(pendingInit) <= MaxPending
  /\ difficulty \in Difficulties
  /\ mazeRows \in {NoLevel} \cup (0..(NumLevels - 1))
  /\ sinceArmed \in {0, 1}

\* The effect "initialize first level when game starts" (playing with an
\* empty maze) never has anything to do: every way into playing sets the maze
InitEffectIdle == ~(gameState = "playing" /\ currentMaze = << >>)

----------------------------------------------------------------------------
(* Properties *)

MoveStep == \E dir \in { directions[k] : k \in 1..Len(directions) } : Move(dir)

CellOf(maze, pos) == maze[pos.y + 1][pos.x + 1]

Required == Level(currentLevel).collectibles

\* A move that changed the player's position while playing
PlayerMoved == MoveStep /\ gameState = "playing" /\ playerPos' # playerPos

\* C1: when a move takes the player onto an Exit cell while playing, the phase
\* becomes won if the collected count equals the level's required count, and
\* stays playing (nothing collected, won or lost) if the count is smaller.
C1_ExitGating ==
  [][ (PlayerMoved /\ CellOf(currentMaze, playerPos') = EXIT)
        => /\ (collectedItems = Required => gameState' = "won")
           /\ (collectedItems < Required
                 => /\ gameState' = "playing"
                    /\ collectedItems' = collectedItems
                    /\ score' = score) ]_vars

\* The player stands on the Exit cell with exactly the required count: won
C1_Witness ==
  /\ gameState = "won"
  /\ CellOf(currentMaze, playerPos) = EXIT
  /\ collectedItems = Required

\* The other half of C1 happens too: on the Exit cell early, still playing
C1_EarlyExitReached ==
  /\ gameState = "playing"
  /\ currentMaze # << >>
  /\ CellOf(currentMaze, playerPos) = EXIT
  /\ collectedItems < Required

\* C2: in every reachable state the collected count is at most the current
\* level's required count, and canExitLevel is true exactly when they are equal.
C2_CollectedBounded ==
  /\ collectedItems <= Required
  /\ (canExitLevel <=> collectedItems = Required)

\* C3: on every enemy-update tick, if after the enemies' moves any enemy is on
\* the player's cell, the phase is lost as the outcome of that same tick.
C3_CaptureAfterMoves ==
  [][ EnemyTick => (isPlayerCaught(enemies', playerPos') => gameState' = "lost") ]_vars

\* C4: when the player moves onto a cell an enemy occupies, the phase is lost
\* after that move.
C4_MoveOntoEnemyLoses ==
  [][ (PlayerMoved /\ isPlayerCaught(enemies, playerPos')) => gameState' = "lost" ]_vars

\* C5: a countdown tick turns the phase to lost exactly when time remaining
\* reaches 0, and that is the tick on which as many ticks have elapsed as the
\* time limit of the level being played.
C5_TimeoutAfterTimeLimit ==
  [][ TimerTick
        => /\ (gameState' = "lost" <=> timerTimeLeft' = 0)
           /\ (gameState' = "lost" <=> ticks' = Level(currentLevel).timeLimit) ]_vars

\* C6: time remaining never increases while the phase stays playing (a reset
\* or a level initialization starts a new countdown), does not change while
\* the phase is paused, and is the same after resume as at the pause.
C6_PauseFreezesTime ==
  [][ /\ (gameState = "playing" /\ gameState' = "playing"
            /\ ~HandleReset /\ ~DelayedInit)
          => timerTimeLeft' <= timerTimeLeft
      /\ (gameState = "paused" /\ gameState' = "paused")
          => timerTimeLeft' = timerTimeLeft
      /\ (gameState = "paused" /\ HandlePause)
          => timerTimeLeft' = timerTimeLeft ]_vars

\* C7: while the phase is not playing neither tick fires, and as long as the
\* phase stays away from playing no enemy changes position.
C7_NoEnemyMoveUnlessPlaying ==
  [][ gameState # "playing"
        => /\ ~TimerTick
           /\ ~EnemyTick
           /\ (gameState' # "playing" => enemies' = enemies) ]_vars

\* C8: each collected item adds exactly 100 to the level score, and continuing
\* from won adds levelScore + 10 x (the countdown's time remaining at the win)
\* to totalScore.
C8_ScoreAndTimeBonus ==
  [][ /\ (MoveStep /\ collectedItems' = collectedItems + 1)
          => score' = score + 100
      /\ HandleNextLevel
          => totalScore' = totalScore + score + 10 * timerTimeLeft ]_vars

StartedOn(levelIndex) ==
  /\ gameState' = "playing"
  /\ currentLevel' = levelIndex
  /\ currentMaze' = Level(levelIndex).maze
  /\ playerPos' = Level(levelIndex).playerStart
  /\ enemies' = Level(levelIndex).enemyPositions
  /\ score' = 0
  /\ collectedItems' = 0
  /\ timerTimeLeft' = Level(levelIndex).timeLimit

\* C9: startLevel(index) (start game, level select, play again) leaves the
\* session playing level index with that level's grid, player start, enemy
\* positions and time limit, and with score 0 and collected count 0.
C9_StartLevelInitializes ==
  [][ /\ \A levelIndex \in 0..(NumLevels - 1) :
           HandleLevelSelect(levelIndex) => StartedOn(levelIndex)
      /\ (HandleStartGame \/ HandlePlayAgain) => StartedOn(0) ]_vars

\* C10: continuing from won on the last level gives completed; otherwise the
\* phase is playing on level i+1 and the initialization that follows installs
\* level i+1's grid, player start, enemy positions and time limit.
C10_NextLevelLoadsNext ==
  [][ /\ HandleNextLevel
          => IF currentLevel + 1 >= NumLevels
               THEN gameState' = "completed"
               ELSE gameState' = "playing" /\ currentLevel' = currentLevel + 1
      /\ DelayedInit
          => /\ currentMaze' = Level(currentLevel').maze
             /\ playerPos' = Level(currentLevel').playerStart
             /\ enemies' = Level(currentLevel').enemyPositions
             /\ timerTimeLeft' = Level(currentLevel').timeLimit ]_vars

\* C11: reset/retry re-initializes the level being played: afterwards the phase
\* is playing, the level index is unchanged, the grid equals the level's
\* canonical maze, the player is at playerStart, the enemies are at their
\* initial positions, score and collected count are 0 and the countdown is
\* running from the level's time limit.
C11_ResetReinitializes ==
  [][ HandleReset
        => /\ StartedOn(currentLevel)
           /\ isRunning'
           /\ ticks' = 0 ]_vars

\* Level 1 with level 1's own grid and full countdown: only a reset gets there
C11_Witness ==
  /\ gameState = "playing"
  /\ currentLevel = 1
  /\ currentMaze = Level(1).maze
  /\ playerPos = Level(1).playerStart
  /\ enemies = Level(1).enemyPositions
  /\ score = 0 /\ collectedItems = 0
  /\ timerTimeLeft = Level(1).timeLimit /\ isRunning

\* C12: returning to the menu or resetting leaves no callback scheduled before
\* the command that can still run and write session state: the tick intervals
\* of the previous render are gone after a return to menu, and no delayed
\* level initialization queued earlier is still pending after either command.
C12_NoStaleCallback ==
  [][ /\ HandleMenu => (~TimerArmed' /\ ~GameLoopArmed')
      /\ (HandleMenu \/ HandleReset) => pendingInit' = << >> ]_vars

\* C13: neither periodic tick is starved: if the countdown's interval stays
\* set from some point on (phase playing, timer running) the countdown tick
\* fires again and again, and likewise the enemy-update tick as long as the
\* phase stays playing, whatever the other tick and the player's moves do.
C13_TicksNotStarved ==
  /\ (<>[]TimerArmed) => []<><<TimerTick>>_vars
  /\ (<>[]GameLoopArmed) => []<><<EnemyTick>>_vars

\* The cell is outside the grid or a Wall
Blocked(maze, pos) ==
  \/ pos.y < 0 \/ pos.y >= Len(maze)
  \/ pos.x < 0 \/ pos.x >= Len(maze[1])
  \/ maze[pos.y + 1][pos.x + 1] = WALL

\* C14: a move is a no-op (player position, grid, score and collected count
\* unchanged, phase unchanged) whenever the phase is not playing, or the
\* target cell is outside the grid or a Wall, or the previous move attempt was
\* less than the minimum move interval ago; no cell outside the grid and no
\* Wall is a valid target.
C14_InvalidMoveIsNoOp ==
  [][ /\ \A dir \in { directions[k] : k \in 1..Len(directions) } :
           ( /\ Move(dir)
             /\ \/ gameState # "playing"
                \/ lastMoveRecent
                \/ Blocked(currentMaze, Step(playerPos, dir)) )
             => UNCHANGED <<playerPos, currentMaze, score, collectedItems,
                            gameState, totalScore, enemies>>
      /\ currentMaze # << >>
           => \A x \in -1..5, y \in -1..4 :
                Blocked(currentMaze, Pos(x, y)) => ~isValidMove(currentMaze, x, y) ]_vars

\* Playing, within the move interval of the last attempt, next to a Wall:
\* every no-op case but the phase one applies to a move made here
C14_Witness ==
  /\ gameState = "playing"
  /\ lastMoveRecent
  /\ \E dir \in { directions[k] : k \in 1..Len(directions) } :
       Blocked(currentMaze, Step(playerPos, dir))

\* The phase edges of the specification's state machine
SpecEdges ==
  { <<"menu", "playing">>, <<"playing", "paused">>, <<"paused", "playing">>,
    <<"playing", "won">>, <<"playing", "lost">>, <<"won", "playing">>,
    <<"won", "completed">>, <<"lost", "playing">> }
    \cup { <<p, "menu">> : p \in {"playing", "paused", "won", "lost", "completed"} }

C16_InvalidLevelNeverPlayed ==
  gameState = "playing" => validateMaze(Level(currentLevel).maze).isValid

\* C17: the canonical level definitions are never modified by play: the level
\* list always holds the original mazes, and the in-play grid never shares
\* its rows with a level's maze.
C17_CanonicalLevelsIntact ==
  /\ levels = LEVELS
  /\ mazeRows = NoLevel

\* The in-play grid has been written to (an item was collected from the Exit
\* cell or from another Collectible cell) and differs from every level's maze
C17_Witness ==
  /\ gameState = "playing"
  /\ collectedItems > 0
  /\ \A i \in 0..(NumLevels - 1) : currentMaze # Level(i).maze

\* C18: for every requested width and height of at least 3 (even values
\* coerced to the next odd value) and every sequence of random choices,
\* generateMaze terminates, and the grid it returns is solvable from (1,1) to
\* (w-2,h-2), w and h being the coerced dimensions.
C18_GeneratedMazeSolvable ==
  /\ [](gen.pc = "done"
         => isMazeSolvable(gen.maze, Pos(1, 1), Pos(gen.w - 2, gen.h - 2)))
  /\ (gen.pc = "carve") ~> (gen.pc = "done")

\* A 7x7 grid has been returned for a request with an even dimension
C18_Witness ==
  /\ gen.pc = "done"
  /\ gen.w = 7 /\ gen.h = 7
  /\ gen.collectibles = MaxGenCollectibles

\* The passable cells within k steps of start
RECURSIVE Within(_, _, _)
Within(maze, start, k) ==
  IF k = 0 THEN {start}
  ELSE LET inner == Within(maze, start, k - 1)
       IN inner \cup { q \in UtilCells(Len(maze[1])) :
                         /\ isInBounds(q.x, q.y, maze)
                         /\ maze[q.y + 1][q.x + 1] # WALL
                         /\ \E p \in inner : getDistance(p, q) = 1 }

\* The least number of cardinal steps from start to goal (both passable,
\* goal reachable)
RECURSIVE HopsFrom(_, _, _, _)
HopsFrom(maze, start, goal, k) ==
  IF goal \in Within(maze, start, k) THEN k ELSE HopsFrom(maze, start, goal, k + 1)

Passable(maze, pos) ==
  isInBounds(pos.x, pos.y, maze) /\ maze[pos.y + 1][pos.x + 1] # WALL

Connected(maze, start, goal) ==
  /\ Passable(maze, start)
  /\ Passable(maze, goal)
  /\ goal \in Within(maze, start, UtilRows * Len(maze[1]))

\* C19: findPath returns a sequence that begins at start, ends at goal, moves
\* one cardinal step at a time through passable cells and has the least
\* possible number of steps (the Manhattan distance where no wall is in the
\* grid); it returns none exactly when the goal is not reachable from start.
C19_FindPathShortest ==
  call.fn = "findPath" =>
    LET path == call.result
        maze == call.maze
    IN IF Connected(maze, call.start, call.goal)
         THEN /\ path # NoPath
              /\ path[1] = call.start
              /\ path[Len(path)] = call.goal
              /\ \A k \in 1..Len(path) : Passable(maze, path[k])
              /\ \A k \in 1..(Len(path) - 1) : getDistance(path[k], path[k + 1]) = 1
              /\ Len(path) - 1 = HopsFrom(maze, call.start, call.goal, 0)
              /\ (\A r \in 1..Len(maze), c \in 1..Len(maze[1]) : maze[r][c] = PATH)
                    => Len(path) - 1 = getDistance(call.start, call.goal)
         ELSE path = NoPath

\* A path that had to go around a wall
C19_Witness ==
  /\ call.fn = "findPath"
  /\ call.result # NoPath
  /\ Len(call.result) - 1 = getDistance(call.start, call.goal) + 2

\* C20: updateMazeCell never modifies its input grid; for an out-of-bounds
\* position it returns a grid equal to the input; for an in-bounds position it
\* returns a new grid that holds the new value in that cell and equals the
\* input in every other cell.
C20_UpdateMazeCellFrame ==
  call.fn = "updateMazeCell" =>
    /\ call.mazeAfter = call.maze
    /\ IF isInBounds(call.x, call.y, call.maze)
         THEN /\ call.resultRows = NoLevel
              /\ Len(call.result) = Len(call.maze)
              /\ \A r \in 1..Len(call.maze) :
                   /\ Len(call.result[r]) = Len(call.maze[r])
                   /\ \A c \in 1..Len(call.maze[r]) :
                        call.result[r][c] =
                          IF r = call.y + 1 /\ c = call.x + 1
                            THEN call.newValue ELSE call.maze[r][c]
         ELSE call.result = call.maze

\* An in-bounds update that changed a cell of a grid with other cells around
C20_Witness ==
  /\ call.fn = "updateMazeCell"
  /\ isInBounds(call.x, call.y, call.maze)
  /\ call.result # call.maze
  /\ Len(call.maze[1]) = MaxUtilCols

\* C21: collecting an item turns the Collectible cell the player has just
\* entered into Path and changes no other cell of the in-play grid (so the
\* Exit cell is never overwritten and the collected cell cannot be collected
\* a second time).
C21_CollectClearsEnteredCell ==
  [][ (MoveStep /\ collectedItems' = collectedItems + 1)
        => /\ CellOf(currentMaze, playerPos') = COLLECTIBLE
           /\ currentMaze' = [ currentMaze EXCEPT
                                 ![playerPos'.y + 1][playerPos'.x + 1] = PATH ] ]_vars

\* C22: while the phase is playing or paused, the timeLeft of the game-state
\* hook (shown to the player, used by nextLevel for the time bonus) equals
\* the timeLeft counted down by the countdown timer hook.
C22_TimeLeftInSync ==
  gameState \in {"playing", "paused"} => timeLeft = timerTimeLeft

\* C23: whenever the phase is playing, the player's position is inside the
\* bounds of the current in-play grid and is not a Wall cell (also right
\* after level start, reset and level change).
C23_PlayerOnOpenCell ==
  gameState = "playing" => currentMaze # << >> /\ ~Blocked(currentMaze, playerPos)

\* Playing the next level after a win, the delayed initialization done: the
\* player has been put back on the start cell of the grid now in play
C23_Witness ==
  /\ gameState = "playing"
  /\ currentLevel = 1
  /\ totalScore > 0
  /\ pendingInit = << >>
  /\ collectedItems = 0
  /\ playerPos = Level(currentLevel).playerStart
  /\ ~Blocked(currentMaze, playerPos)

\* C24: whenever the phase is playing, every enemy occupies an in-bounds,
\* non-Wall cell of the current in-play grid, and each enemy-update tick moves
\* an enemy by at most one cardinal step.
C24_EnemiesOnOpenCells ==
  /\ [](gameState = "playing"
          => \A k \in 1..Len(enemies) : ~Blocked(currentMaze, enemies[k]))
  /\ [][ EnemyTick
           => /\ Len(enemies') = Len(enemies)
              /\ \A k \in 1..Len(enemies) :
                   getDistance(enemies[k], enemies'[k]) <= 1 ]_vars

\* C25: for every bundled level, the number of Collectible cells in its maze
\* equals the level's required collectible count.
C25_CollectiblesMatchRequired ==
  call.fn = "countCells" => call.result = call.collectibles

\* The passable cardinal neighbors of the patrolling enemy that are not in
\* the move history of its cell
FreshNeighbors ==
  { n \in { Step(call.enemy, directions[k]) : k \in 1..Len(directions) } :
      /\ Passable(call.maze, n)
      /\ ~wasRecentlyHere(call.moveHistory[call.enemy], n) }

\* C26: the random-walk step never moves an enemy into a cell of its move
\* history (its last 3 positions) when a passable cardinal neighbor outside
\* that history exists; in particular the enemy then does not step back to
\* the cell it has just left.
C26_RandomMoveAvoidsHistory ==
  [][ (PatrolTick /\ FreshNeighbors # {}) => call'.enemy \in FreshNeighbors ]_vars

\* The passable cardinal neighbors of a cell
OpenNeighbors(maze, pos) ==
  { n \in { Step(pos, directions[k]) : k \in 1..Len(directions) } : Passable(maze, n) }

\* C27: the anti-oscillation rule never deadlocks an enemy: an enemy with at
\* least one passable cardinal neighbor is moved to one of them by every basic
\* enemy update (by the chase, by the random walk after a failed chase, or to
\* a recently visited cell when every candidate is recent), and an enemy
\* without a passable neighbor stays where it is, its history untouched.
C27_EnemyNeverDeadlocked ==
  [][ UpdateTick
        => IF OpenNeighbors(call.maze, call.enemy) # {}
             THEN call'.enemy \in OpenNeighbors(call.maze, call.enemy)
             ELSE /\ call'.enemy = call.enemy
                  /\ call'.moveHistory = call.moveHistory ]_vars

\* The enemy has just walked back out of a dead end: the cell it left has no
\* passable neighbor but the recently visited cell it is on now
C27_Witness ==
  /\ call.fn = "patrol"
  /\ call.updated
  /\ LET history == call.moveHistory[call.enemy]
     IN /\ Len(history) >= 2
        /\ history[Len(history) - 1] = call.enemy
        /\ OpenNeighbors(call.maze, history[Len(history)]) = { call.enemy }

\* The odd-coordinate room cells of a w x h grid other than the start (1,1)
\* and the exit (w-2, h-2)
AvailableRooms(w, h) ==
  { p \in { Pos(x, y) : x \in 1..(w - 2), y \in 1..(h - 2) } :
      p.x % 2 = 1 /\ p.y % 2 = 1 } \ { Pos(1, 1), Pos(w - 2, h - 2) }

\* The Collectible cells of a w x h grid
CollectibleCells(maze, w, h) ==
  { p \in { Pos(x, y) : x \in 0..(w - 1), y \in 0..(h - 1) } :
      maze[p.y + 1][p.x + 1] = COLLECTIBLE }

\* C28: generateMaze(width, height, c) with c >= 0 returns a grid with the
\* Exit at (w-2, h-2) and exactly min(c, available) Collectible cells, where
\* available is the number of odd-coordinate room cells other than the start
\* (1,1) and the exit; every Collectible is one of those cells (odd
\* coordinates, never the start cell).
C28_GeneratedCollectibles ==
  gen.pc = "done" =>
    /\ gen.maze[gen.h - 1][gen.w - 1] = EXIT
    /\ Cardinality(CollectibleCells(gen.maze, gen.w, gen.h))
         = Min(gen.collectibles, Cardinality(AvailableRooms(gen.w, gen.h)))
    /\ CollectibleCells(gen.maze, gen.w, gen.h) \subseteq AvailableRooms(gen.w, gen.h)

\* A grid returned with fewer collectibles than requested: all the available
\* room cells were used
C28_Witness ==
  /\ gen.pc = "done"
  /\ gen.collectibles = MaxGenCollectibles
  /\ CollectibleCells(gen.maze, gen.w, gen.h) = AvailableRooms(gen.w, gen.h)
  /\ Cardinality(AvailableRooms(gen.w, gen.h)) = 1

\* The cells of a grid
GridCells(maze) ==
  { Pos(x, y) : x \in 0..(Len(maze[1]) - 1), y \in 0..(Len(maze) - 1) }

\* The non-Wall cells with exactly one non-Wall cardinal neighbor
DeadEndCells(maze) ==
  { p \in GridCells(maze) :
      /\ CellOf(maze, p) # WALL
      /\ Cardinality(OpenNeighbors(maze, p)) = 1 }

\* C29: removeDeadEnds leaves its input grid unmodified, terminates, and
\* returns a grid of the same size in which every Exit and Collectible cell
\* of the input is still there at the same position and every remaining
\* non-Wall cell with exactly one open neighbor is an Exit or a Collectible.
C29_RemoveDeadEndsFixedPoint ==
  call.fn = "removeDeadEnds" =>
    /\ call.mazeAfter = call.maze
    /\ Len(call.result) = Len(call.maze)
    /\ \A r \in 1..Len(call.maze) : Len(call.result[r]) = Len(call.maze[r])
    /\ \A p \in GridCells(call.maze) :
         CellOf(call.maze, p) \in {EXIT, COLLECTIBLE}
           => CellOf(call.result, p) = CellOf(call.maze, p)
    /\ \A p \in DeadEndCells(call.result) :
         CellOf(call.result, p) \in {EXIT, COLLECTIBLE}

\* A pruning that took more than one pass and left a dead end standing
\* because it holds an item
C29_Witness ==
  /\ call.fn = "removeDeadEnds"
  /\ DeadEndCells(call.result) # {}
  /\ \E p \in GridCells(call.maze) :
       /\ CellOf(call.maze, p) = PATH
       /\ CellOf(call.result, p) = WALL
       /\ p \notin DeadEndCells(call.maze)

\* The cells the stepping of hasLineOfSight passes on its way from the cell
\* at to pos2, both included
RECURSIVE SteppedCells(_, _, _, _, _, _)
SteppedCells(at, pos2, dx, dy, stepX, stepY) ==
  IF at.x = pos2.x /\ at.y = pos2.y THEN { pos2 }
  ELSE { Pos(at.x, at.y) }
         \cup SteppedCells(lineStep(at, dx, dy, stepX, stepY), pos2, dx, dy, stepX, stepY)

LineCells(pos1, pos2) ==
  LET dx == Abs(pos2.x - pos1.x)
      dy == Abs(pos2.y - pos1.y)
  IN SteppedCells([ x |-> pos1.x, y |-> pos1.y, error |-> dx - dy ], pos2, dx, dy,
                  IF pos1.x < pos2.x THEN 1 ELSE -1,
                  IF pos1.y < pos2.y THEN 1 ELSE -1)

\* C30: hasLineOfSight(a, b) returns false whenever a cell passed by the
\* stepping from a to b, a and b included, is out of bounds or a Wall, and
\* true only when every such cell is passable.
C30_LineOfSightClear ==
  call.fn = "hasLineOfSight" =>
    (call.result <=> \A p \in LineCells(call.pos1, call.pos2) : Passable(call.maze, p))

====
